---- MODULE Spec2Model ----
(***************************************************************************)
(* The Last-Modified validation subrequest of REDbot                       *)
(* (redbot/resource/active_check/lm_validate.py): one LmValidate check     *)
(* running against one base resource.                                      *)
(***************************************************************************)
EXTENDS Integers, Sequences, FiniteSets, TLC

VARIABLES
    base,             \* the base resource: request headers and response
    ims_support,      \* base.ims_support
    notes,            \* base.notes
    request_headers,  \* self.request.headers of the subrequest
    response,         \* self.response of the subrequest
    fetch_started,    \* self.fetch_started
    pc,               \* position of the check in its lifecycle
    issued,           \* number of probe requests handed to the transport
    done_calls,       \* number of invocations of done()
    inm_support,      \* base.inm_support, owned by the ETag check
    gzip_support,     \* base.gzip_support, owned by the negotiation check
    partial_support,  \* base.partial_support, owned by the range check
    other_pc,         \* position of each of the other checks
    completed,        \* the checks whose completion callback has run, in order
    rendered_links    \* the '<check> response' links of the last report

vars == <<base, ims_support, notes, request_headers, response,
          fetch_started, pc, issued, done_calls,
          inm_support, gzip_support, partial_support, other_pc,
          completed, rendered_links>>

(***************************************************************************)
(* Bounds of the model.                                                    *)
(***************************************************************************)
MaxReqHdrs == 2
MaxPriorNotes == 1
MaxSweep == 6
MaxOtherChecks == 1

(***************************************************************************)
(* Python values.                                                          *)
(***************************************************************************)
None == "None"

has_key(d, k) == k \in DOMAIN d

\* The elements of a sequence.
Range(f) == {f[i] : i \in DOMAIN f}

(***************************************************************************)
(* Notes (the Note subclasses at the end of lm_validate.py).               *)
(***************************************************************************)
LM_SUBREQ_PROBLEM == [name |-> "LM_SUBREQ_PROBLEM", category |-> "VALIDATION", level |-> "BAD"]
IMS_304 == [name |-> "IMS_304", category |-> "VALIDATION", level |-> "GOOD"]
IMS_FULL == [name |-> "IMS_FULL", category |-> "VALIDATION", level |-> "WARN"]
IMS_UNKNOWN == [name |-> "IMS_UNKNOWN", category |-> "VALIDATION", level |-> "INFO"]
IMS_STATUS == [name |-> "IMS_STATUS", category |-> "VALIDATION", level |-> "INFO"]
MISSING_HDRS_304 == [name |-> "MISSING_HDRS_304", category |-> "VALIDATION", level |-> "WARN"]

\* A note already on the base resource before the check starts.
PRIOR_NOTE == [name |-> "PRIOR_NOTE", category |-> "GENERAL", level |-> "INFO"]

MkNote(subject, note, kw) ==
    [subject |-> subject, note |-> note.name, category |-> note.category,
     level |-> note.level, vars |-> kw]

\* C16's mutant: the note is put in front of the notes.
add_base_note_in_front(ns, subject, note, kw) ==
    <<MkNote(subject, note, kw)>> \o ns

\* SubRequest.add_base_note: append a note to the base resource's notes.
add_base_note(ns, subject, note, kw) == Append(ns, MkNote(subject, note, kw))

\* The headers a 304 should still carry (the list passed at lines 53-55).
Hdrs304 == <<"cache-control", "content-location", "etag", "expires", "vary">>

\* SubRequest.check_missing_hdrs: one note per listed header that the
\* subrequest's response lacks, in list order.
RECURSIVE check_missing_hdrs(_, _, _, _, _)
check_missing_hdrs(ns, resp, hdrs, note, subreq_type) ==
    IF hdrs = <<>> THEN ns
    ELSE LET h == Head(hdrs)
             ns1 == IF has_key(resp.parsed_headers, h) THEN ns
                    ELSE add_base_note(ns, "headers", note,
                           <<<<"missing_hdrs", h>>, <<"subreq_type", subreq_type>>>>)
         IN check_missing_hdrs(ns1, resp, Tail(hdrs), note, subreq_type)

(***************************************************************************)
(* Timestamps.  A parsed Last-Modified value is a number of seconds since  *)
(* the epoch.  It is written in two limbs, [days, sod] standing for        *)
(* days * 86400 + sod with sod in 0..86399, together with its magnitude:   *)
(*   "time_t"        it fits the platform's time_t and gmtime();           *)
(*   "beyond_time_t" it is a float-convertible number outside time_t;      *)
(*   "beyond_float"  it is an integer too large to convert to a float.     *)
(***************************************************************************)
Timestamp(d, s) == [magnitude |-> "time_t", days |-> d, sod |-> s]
BeyondTimeT == [magnitude |-> "beyond_time_t", days |-> 0, sod |-> 0]
BeyondFloat == [magnitude |-> "beyond_float", days |-> 0, sod |-> 0]

\* The calendar date of a day number (days since 1970-01-01), as gmtime()
\* computes it in the proleptic Gregorian calendar.
CivilFromDays(z0) ==
    LET z == z0 + 719468
        era == z \div 146097
        doe == z - era * 146097
        yoe == (doe - doe \div 1460 + doe \div 36524 - doe \div 146096) \div 365
        doy == doe - (365 * yoe + yoe \div 4 - yoe \div 100)
        mp == (5 * doy + 2) \div 153
        d == doy - (153 * mp + 2) \div 5 + 1
        m == IF mp < 10 THEN mp + 3 ELSE mp - 9
        y == yoe + era * 400 + (IF m <= 2 THEN 1 ELSE 0)
    IN [year |-> y, month |-> m, day |-> d]

\* datetime.utcfromtimestamp: a datetime, or the exception it raises.
utcfromtimestamp(ts) ==
    IF ts.magnitude = "beyond_float" THEN [ok |-> FALSE, exc |-> "OverflowError"]
    ELSE IF ts.magnitude = "beyond_time_t" THEN [ok |-> FALSE, exc |-> "ValueError"]
    ELSE LET c == CivilFromDays(ts.days) IN
         IF c.year < 1 \/ c.year > 9999 THEN [ok |-> FALSE, exc |-> "ValueError"]
         ELSE [ok |-> TRUE, exc |-> None,
               year |-> c.year, month |-> c.month, day |-> c.day,
               hour |-> ts.sod \div 3600,
               minute |-> (ts.sod % 3600) \div 60,
               second |-> ts.sod % 60]

is_leap(y) == y % 4 = 0 /\ (y % 100 # 0 \/ y % 400 = 0)

DaysBeforeMonth == <<0, 31, 59, 90, 120, 151, 181, 212, 243, 273, 304, 334>>

\* date.toordinal: the proleptic Gregorian ordinal, 0001-01-01 being day 1.
toordinal(dt) ==
    LET y == dt.year - 1 IN
    y * 365 + y \div 4 - y \div 100 + y \div 400
      + DaysBeforeMonth[dt.month]
      + (IF dt.month > 2 /\ is_leap(dt.year) THEN 1 ELSE 0)
      + dt.day

\* date.weekday: Monday is 0.
weekday(dt) == (toordinal(dt) + 6) % 7

_weekdays == <<"Mon", "Tue", "Wed", "Thu", "Fri", "Sat", "Sun">>
_months == <<"Jan", "Feb", "Mar", "Apr", "May", "Jun", "Jul",
             "Aug", "Sep", "Oct", "Nov", "Dec">>

Digits == <<"0", "1", "2", "3", "4", "5", "6", "7", "8", "9">>

\* str(n) for n >= 0.
RECURSIVE DecStr(_)
DecStr(n) == IF n < 10 THEN Digits[n + 1]
             ELSE DecStr(n \div 10) \o Digits[(n % 10) + 1]

RECURSIVE ZeroPad(_, _)
ZeroPad(s, w) == IF Len(s) >= w THEN s ELSE ZeroPad("0" \o s, w)

\* "%.<w>d" % n for n >= 0: at least w digits, zero-padded.
FmtD(n, w) == ZeroPad(DecStr(n), w)

\* C8's mutant: the day is formatted with %d, without padding.
date_str_unpadded_day(l_m) ==
    _weekdays[weekday(l_m) + 1] \o ", " \o DecStr(l_m.day) \o " "
      \o _months[l_m.month] \o " " \o FmtD(l_m.year, 4) \o " "
      \o FmtD(l_m.hour, 2) \o ":" \o FmtD(l_m.minute, 2) \o ":"
      \o FmtD(l_m.second, 2) \o " GMT"

\* u"%s, %.2d %s %.4d %.2d:%.2d:%.2d GMT" % (...), lines 27-34.
\* _weekdays is indexed from 0 and _months[0] is None, so _months here,
\* indexed from 1, is the table without its placeholder.
date_str(l_m) ==
    _weekdays[weekday(l_m) + 1] \o ", " \o FmtD(l_m.day, 2) \o " "
      \o _months[l_m.month] \o " " \o FmtD(l_m.year, 4) \o " "
      \o FmtD(l_m.hour, 2) \o ":" \o FmtD(l_m.minute, 2) \o ":"
      \o FmtD(l_m.second, 2) \o " GMT"

\* C18's mutant: req_hdrs is the base's own list, not a copy of it, so the
\* += of line 35 extends the base request's headers too.
modify_req_hdrs_aliased(b) ==
    LET req_hdrs == b.request_headers IN
    IF has_key(b.parsed_headers, "last-modified")
    THEN LET l_m == utcfromtimestamp(b.parsed_headers["last-modified"]) IN
         IF ~l_m.ok
         THEN IF l_m.exc = "ValueError"
              THEN [raised |-> None, headers |-> req_hdrs,
                    base_request_headers |-> b.request_headers]
              ELSE [raised |-> l_m.exc, headers |-> <<>>,
                    base_request_headers |-> b.request_headers]
         ELSE LET extended ==
                    req_hdrs \o <<<<"If-Modified-Since", date_str(l_m)>>>>
              IN [raised |-> None, headers |-> extended,
                  base_request_headers |-> extended]
    ELSE [raised |-> None, headers |-> req_hdrs,
          base_request_headers |-> b.request_headers]

\* LmValidate.modify_req_hdrs: the headers of the subrequest, or the
\* exception that escapes.  b is the base resource.
\* req_hdrs is a copy, list(self.base.request.headers), so what is
\* appended to it leaves the base's own list (base_request_headers) alone.
modify_req_hdrs(b) ==
    LET req_hdrs == b.request_headers IN
    IF has_key(b.parsed_headers, "last-modified")
    THEN LET l_m == utcfromtimestamp(b.parsed_headers["last-modified"]) IN
         IF ~l_m.ok
         THEN IF l_m.exc = "ValueError"
              THEN [raised |-> None, headers |-> req_hdrs,
                    base_request_headers |-> b.request_headers]
              ELSE [raised |-> l_m.exc, headers |-> <<>>,
                    base_request_headers |-> b.request_headers]
         ELSE [raised |-> None,
               headers |-> req_hdrs \o <<<<"If-Modified-Since", date_str(l_m)>>>>,
               base_request_headers |-> b.request_headers]
    ELSE [raised |-> None, headers |-> req_hdrs,
          base_request_headers |-> b.request_headers]

\* C1's mutant: preflight() fails without recording the lack of support.
preflight_forgets_flag(b, ims) ==
    IF has_key(b.parsed_headers, "last-modified")
    THEN [result |-> TRUE, ims_support |-> ims]
    ELSE [result |-> FALSE, ims_support |-> ims]

\* C11's mutant: preflight() passes whatever the base response holds.
preflight_always_applicable(b, ims) == [result |-> TRUE, ims_support |-> ims]

\* LmValidate.preflight: the result and base.ims_support afterwards.
preflight(b, ims) ==
    IF has_key(b.parsed_headers, "last-modified")
    THEN [result |-> TRUE, ims_support |-> ims]
    ELSE [result |-> FALSE, ims_support |-> "False"]

\* http_error.desc of the transport's error objects; an absent descriptor
\* (None) has no such attribute, which done() finds out at line 47.
desc(http_error) ==
    CASE http_error = "ConnectError" -> "Connection Error"
      [] http_error = "ReadTimeoutError" -> "Read Timeout"

\* C17's mutant: an incomplete response is taken for a lack of support.
done_incomplete_sets_flag(resp, ims, ns) ==
    IF resp.http_error = None
    THEN [raised |-> "AttributeError", ims_support |-> ims, notes |-> ns]
    ELSE [raised |-> None, ims_support |-> "False",
          notes |-> add_base_note(ns, "", LM_SUBREQ_PROBLEM,
                      <<<<"problem", desc(resp.http_error)>>>>)]

\* C15's mutant: an incomplete response is dropped without a note.
done_incomplete_silent(resp, ims, ns) ==
    [raised |-> None, ims_support |-> ims, notes |-> ns]

\* done(), lines 46-48: the response is incomplete.
done_incomplete(resp, ims, ns) ==
    IF resp.http_error = None
    THEN [raised |-> "AttributeError", ims_support |-> ims, notes |-> ns]
    ELSE [raised |-> None, ims_support |-> ims,
          notes |-> add_base_note(ns, "", LM_SUBREQ_PROBLEM,
                      <<<<"problem", desc(resp.http_error)>>>>)]

\* C2's mutant: the 304 branch forgets to record the support.
done_304_forgets_flag(resp, ims, ns) ==
    [raised |-> None, ims_support |-> ims,
     notes |-> check_missing_hdrs(
                 add_base_note(ns, "header-last-modified", IMS_304, <<>>),
                 resp, Hdrs304, MISSING_HDRS_304, "If-Modified-Since")]

\* C12's mutant: the 304 branch, copied from the ETag check, still records
\* the support in that check's flag as well.
done_304_writes_inm(resp, ims, ns) ==
    [raised |-> None, ims_support |-> "True", inm_support |-> "True",
     notes |-> check_missing_hdrs(
                 add_base_note(ns, "header-last-modified", IMS_304, <<>>),
                 resp, Hdrs304, MISSING_HDRS_304, "If-Modified-Since")]

\* done(), lines 50-55: the status is 304.
done_304(resp, ims, ns) ==
    [raised |-> None, ims_support |-> "True",
     notes |-> check_missing_hdrs(
                 add_base_note(ns, "header-last-modified", IMS_304, <<>>),
                 resp, Hdrs304, MISSING_HDRS_304, "If-Modified-Since")]

\* C3's mutant: the comparison of the hashes is inverted.
done_same_status_inverted(b, resp, ims, ns) ==
    IF resp.payload_md5 # b.payload_md5
    THEN [raised |-> None, ims_support |-> "False",
          notes |-> add_base_note(ns, "header-last-modified", IMS_FULL, <<>>)]
    ELSE [raised |-> None, ims_support |-> ims,
          notes |-> add_base_note(ns, "header-last-modified", IMS_UNKNOWN, <<>>)]

\* C4's mutant: the full-response branch forgets to record the lack of
\* support.
done_same_status_forgets_flag(b, resp, ims, ns) ==
    IF resp.payload_md5 = b.payload_md5
    THEN [raised |-> None, ims_support |-> ims,
          notes |-> add_base_note(ns, "header-last-modified", IMS_FULL, <<>>)]
    ELSE [raised |-> None, ims_support |-> ims,
          notes |-> add_base_note(ns, "header-last-modified", IMS_UNKNOWN, <<>>)]

\* done(), lines 56-61: the status is the base response's.
done_same_status(b, resp, ims, ns) ==
    IF resp.payload_md5 = b.payload_md5
    THEN [raised |-> None, ims_support |-> "False",
          notes |-> add_base_note(ns, "header-last-modified", IMS_FULL, <<>>)]
    ELSE [raised |-> None, ims_support |-> ims,
          notes |-> add_base_note(ns, "header-last-modified", IMS_UNKNOWN, <<>>)]

\* C5's mutant: an unexpected status is taken for a lack of support.
done_other_status_sets_flag(resp, ims, ns) ==
    [raised |-> None, ims_support |-> "False",
     notes |-> add_base_note(ns, "header-last-modified", IMS_STATUS,
                 <<<<"ims_status", resp.status_code>>,
                   <<"enc_ims_status",
                     IF resp.status_code = None THEN "(unknown)"
                     ELSE resp.status_code>>>>)]

\* done(), lines 62-65: any other status.
done_other_status(resp, ims, ns) ==
    [raised |-> None, ims_support |-> ims,
     notes |-> add_base_note(ns, "header-last-modified", IMS_STATUS,
                 <<<<"ims_status", resp.status_code>>,
                   <<"enc_ims_status",
                     IF resp.status_code = None THEN "(unknown)"
                     ELSE resp.status_code>>>>)]

\* C19's mutant: the status comparison with the base comes before the
\* test for 304.
done_same_status_first(b, resp, ims, ns) ==
    IF ~resp.complete THEN done_incomplete(resp, ims, ns)
    ELSE IF resp.status_code = b.status_code
    THEN done_same_status(b, resp, ims, ns)
    ELSE IF resp.status_code = "304" THEN done_304(resp, ims, ns)
    ELSE done_other_status(resp, ims, ns)

\* LmValidate.done: base.ims_support and base.notes afterwards, or the
\* exception that escapes.
done(b, resp, ims, ns) ==
    IF ~resp.complete THEN done_incomplete(resp, ims, ns)
    ELSE IF resp.status_code = "304" THEN done_304(resp, ims, ns)
    ELSE IF resp.status_code = b.status_code
    THEN done_same_status(b, resp, ims, ns)
    ELSE done_other_status(resp, ims, ns)

(***************************************************************************)
(* The inputs: base resources and subrequest responses.                    *)
(***************************************************************************)
RequestHeader == {<<"User-Agent", "RED">>, <<"If-Modified-Since", "x">>}

RECURSIVE SeqsUpTo(_, _)
SeqsUpTo(S, n) ==
    IF n = 0 THEN {<<>>}
    ELSE LET shorter == SeqsUpTo(S, n - 1)
         IN shorter \cup {Append(q, x) : q \in shorter, x \in S}

\* Parsed Last-Modified values: named dates, the two ends of the range
\* datetime accepts, the first days outside it, and a sweep of days.
LmValues ==
    { Timestamp(19421, 25689),      \* 2023-03-05 07:08:09
      Timestamp(0, 0),              \* 1970-01-01 00:00:00
      Timestamp(-1, 86399),         \* 1969-12-31 23:59:59
      Timestamp(11016, 43200),      \* 2000-02-29 12:00:00
      Timestamp(-719162, 0),        \* 0001-01-01 00:00:00
      Timestamp(-354286, 3661),     \* 0999-12-31 01:01:01
      Timestamp(2932896, 86399),    \* 9999-12-31 23:59:59
      Timestamp(-719163, 86399),    \* year 0
      Timestamp(2932897, 0),        \* year 10000
      BeyondTimeT, BeyondFloat }
    \cup { Timestamp(10957 + 37 * k, (7919 * k) % 86400) : k \in 0..MaxSweep }

ParsedHeaders(S, v) == [h \in S |-> v]

Base ==
    { [request_headers |-> rh, parsed_headers |-> ph,
       status_code |-> sc, payload_md5 |-> md5] :
        rh \in SeqsUpTo(RequestHeader, MaxReqHdrs),
        ph \in {ParsedHeaders({}, 0)}
               \cup {ParsedHeaders({"last-modified"}, v) : v \in LmValues},
        sc \in {"200", "304"},
        md5 \in {"m0", "m1"} }

NoResponse ==
    [complete |-> FALSE, http_error |-> None, status_code |-> None,
     payload_md5 |-> None, parsed_headers |-> ParsedHeaders({}, "v")]

Hdrs304Set == {Hdrs304[i] : i \in DOMAIN Hdrs304}

\* The complete responses the transport can deliver.
CompleteResponses ==
    { [complete |-> TRUE, http_error |-> None, status_code |-> "304",
       payload_md5 |-> md5, parsed_headers |-> ParsedHeaders(hs, "v")] :
        md5 \in {"m0", "m1"}, hs \in SUBSET Hdrs304Set }
    \cup
    { [complete |-> TRUE, http_error |-> None, status_code |-> sc,
       payload_md5 |-> md5, parsed_headers |-> ParsedHeaders(hs, "v")] :
        sc \in {"200", "404", None}, md5 \in {"m0", "m1"},
        hs \in {{}, Hdrs304Set} }

\* The incomplete ones: with an error descriptor, or with none (http_error
\* is None, as the formatter expects of a global timeout), whatever part of
\* the response had arrived.
IncompleteResponses ==
    { [complete |-> FALSE, http_error |-> err, status_code |-> sc,
       payload_md5 |-> md5, parsed_headers |-> ParsedHeaders(hs, "v")] :
        err \in {None, "ConnectError", "ReadTimeoutError"},
        sc \in {None, "200", "304"}, md5 \in {None, "m0"},
        hs \in {{}, Hdrs304Set} }

Responses == CompleteResponses \cup IncompleteResponses

(***************************************************************************)
(* The checks of one resource, and the reporting layer's view of them.     *)
(***************************************************************************)
\* LmValidate.check_name, line 15.
LmCheckName == "Last-Modified Validation"

\* The other three concrete probes.
OtherChecks == {"ETag Validation", "Content Negotiation", "Partial Content"}

\* The note category each of the other checks reports in.
OtherCategory(c) ==
    CASE c = "ETag Validation" -> "VALIDATION"
      [] c = "Content Negotiation" -> "CONNEG"
      [] c = "Partial Content" -> "RANGE"

\* The notes of another check: its Good note on success, its Bad note on a
\* transport failure.
OtherGood(c) == [name |-> "SUBREQ_GOOD", category |-> OtherCategory(c), level |-> "GOOD"]
OtherProblem(c) == [name |-> "SUBREQ_PROBLEM", category |-> OtherCategory(c), level |-> "BAD"]

\* BaseHtmlFormatter.note_categories: the order of display.
note_categories ==
    <<"GENERAL", "SECURITY", "CONNECTION", "CONNEG", "CACHING", "VALIDATION", "RANGE">>

\* BaseHtmlFormatter.note_responses: the subrequests of each category.
note_responses ==
    [cat \in {"CONNEG", "VALIDATION", "RANGE"} |->
        CASE cat = "CONNEG" -> <<"Content Negotiation">>
          [] cat = "VALIDATION" -> <<"ETag Validation", LmCheckName>>
          [] cat = "RANGE" -> <<"Partial Content">>]

\* SingleEntryHtmlFormatter.format_category: the check names for which a
\* '<check> response' link is put in the category's banner.  ns is
\* resource.notes, started[c] is resource.subreqs[c].fetch_started.
format_category_links(category, ns, started) ==
    IF {i \in DOMAIN ns : ns[i].category = category} = {} THEN <<>>
    ELSE IF category \in DOMAIN note_responses
    THEN LET Started(c) == started[c]
         IN SelectSeq(note_responses[category], Started)
    ELSE <<>>

\* resource.subreqs[c].fetch_started, for every check c.
SubreqFetchStarted ==
    [c \in OtherChecks \cup {LmCheckName} |->
        IF c = LmCheckName THEN fetch_started
        ELSE other_pc[c] \in {"in_flight", "done"}]

\* The value an operation leaves in attribute f of the base resource: the
\* one it assigns (a field of its result r), or else the old one.
Written(r, f, old) == IF f \in DOMAIN r THEN r[f] ELSE old

(***************************************************************************)
(* The state machine.                                                      *)
(***************************************************************************)
Init ==
    /\ base \in Base
    /\ ims_support = None
    /\ notes \in SeqsUpTo({MkNote("", PRIOR_NOTE, <<>>)}, MaxPriorNotes)
    /\ request_headers = <<>>
    /\ response = NoResponse
    /\ fetch_started = FALSE
    /\ pc = "start"
    /\ issued = 0
    /\ done_calls = 0
    /\ inm_support = None
    /\ gzip_support = None
    /\ partial_support = None
    /\ other_pc = [c \in OtherChecks |-> "idle"]
    /\ completed = <<>>
    /\ rendered_links = {}

\* The check is started: preflight(), and if it passes, the request is
\* built with modify_req_hdrs() and handed to the transport.
Check ==
    /\ pc = "start"
    /\ LET pre == preflight(base, ims_support)
           hdrs == modify_req_hdrs(base)
       IN /\ ims_support' = pre.ims_support
          /\ inm_support' = Written(pre, "inm_support", inm_support)
          /\ gzip_support' = Written(pre, "gzip_support", gzip_support)
          /\ partial_support' = Written(pre, "partial_support", partial_support)
          /\ IF ~pre.result
             THEN /\ pc' = "skipped"
                  /\ UNCHANGED <<base, request_headers, fetch_started, issued>>
             ELSE IF hdrs.raised # None
             THEN /\ pc' = "raised"
                  /\ base' = [base EXCEPT
                                !.request_headers = hdrs.base_request_headers]
                  /\ UNCHANGED <<request_headers, fetch_started, issued>>
             ELSE /\ pc' = "in_flight"
                  /\ base' = [base EXCEPT
                                !.request_headers = hdrs.base_request_headers]
                  /\ request_headers' = hdrs.headers
                  /\ fetch_started' = TRUE
                  /\ issued' = issued + 1
    /\ UNCHANGED <<notes, response, done_calls, other_pc, completed,
                   rendered_links>>

\* C10's mutant: the completion is delivered without being consumed, so
\* it can be delivered again.
FetchDone_redelivered ==
    /\ pc = "in_flight"
    /\ \E resp \in Responses :
         LET r == done(base, resp, ims_support, notes)
         IN /\ response' = resp
            /\ done_calls' = done_calls + 1
            /\ ims_support' = r.ims_support
            /\ notes' = r.notes
            /\ pc' = IF r.raised = None THEN "in_flight" ELSE "raised"
    /\ UNCHANGED <<base, request_headers, fetch_started, issued, inm_support,
                   gzip_support, partial_support, other_pc, completed,
                   rendered_links>>

\* The transport completes the fetch (a response, an error or a timeout)
\* and the completion callback runs done().
FetchDone ==
    /\ pc = "in_flight"
    /\ \E resp \in Responses :
         LET r == done(base, resp, ims_support, notes)
         IN /\ response' = resp
            /\ done_calls' = done_calls + 1
            /\ ims_support' = r.ims_support
            /\ inm_support' = Written(r, "inm_support", inm_support)
            /\ gzip_support' = Written(r, "gzip_support", gzip_support)
            /\ partial_support' = Written(r, "partial_support", partial_support)
            /\ notes' = r.notes
            /\ pc' = IF r.raised = None THEN "done" ELSE "raised"
    /\ completed' = Append(completed, LmCheckName)
    /\ UNCHANGED <<base, request_headers, fetch_started, issued, other_pc,
                   rendered_links>>

\* C14's mutant: abandon() stops nothing, the completion callback stays
\* registered.
Abandon_keeps_callback ==
    /\ pc = "in_flight"
    /\ pc' = "abandoned"
    /\ \E resp \in Responses :
         LET r == done(base, resp, ims_support, notes)
         IN /\ response' = resp
            /\ done_calls' = done_calls + 1
            /\ ims_support' = r.ims_support
            /\ notes' = r.notes
    /\ UNCHANGED <<base, request_headers, fetch_started, issued, inm_support,
                   gzip_support, partial_support, other_pc, completed,
                   rendered_links>>

\* The analysis is aborted or times out: the pending completion is dropped.
Abandon ==
    /\ pc = "in_flight"
    /\ pc' = "abandoned"
    /\ UNCHANGED <<base, ims_support, notes, request_headers, response,
                   fetch_started, issued, done_calls, inm_support,
                   gzip_support, partial_support, other_pc, completed,
                   rendered_links>>

Next == Check \/ FetchDone \/ Abandon

Spec == Init /\ [][Next]_vars

\* Every issued request is answered or timed out by the transport, which
\* then runs the completion callback.
SpecLive == Init /\ [][Next]_vars /\ WF_vars(FetchDone)

(***************************************************************************)
(* All the applicable checks of one resource, running together, and the    *)
(* reporting layer reading the resource.                                   *)
(***************************************************************************)
BaseAll ==
    { b \in Base :
        /\ Len(b.request_headers) <= 1
        /\ b.payload_md5 = "m0"
        /\ has_key(b.parsed_headers, "last-modified") =>
             b.parsed_headers["last-modified"] = Timestamp(19421, 25689) }

InitAll ==
    /\ base \in BaseAll
    /\ ims_support = None
    /\ notes \in SeqsUpTo({MkNote("", PRIOR_NOTE, <<>>)}, MaxPriorNotes)
    /\ request_headers = <<>>
    /\ response = NoResponse
    /\ fetch_started = FALSE
    /\ pc = "start"
    /\ issued = 0
    /\ done_calls = 0
    /\ inm_support = None
    /\ gzip_support = None
    /\ partial_support = None
    /\ other_pc \in { f \in [OtherChecks -> {"idle", "start"}] :
                        Cardinality({c \in OtherChecks : f[c] = "start"})
                          <= MaxOtherChecks }
    /\ completed = <<>>
    /\ rendered_links = {}

\* Another applicable check is dispatched.
OtherCheck(c) ==
    /\ other_pc[c] = "start"
    /\ other_pc' = [other_pc EXCEPT ![c] = "in_flight"]
    /\ UNCHANGED <<base, ims_support, notes, request_headers, response,
                   fetch_started, pc, issued, done_calls, inm_support,
                   gzip_support, partial_support, completed, rendered_links>>

\* Another check's probe completes and its classification runs: on success
\* its own flag becomes true and a Good note is appended, on a transport
\* failure a Bad note is appended and the flag is left alone.
OtherFetchDone(c) ==
    /\ other_pc[c] = "in_flight"
    /\ other_pc' = [other_pc EXCEPT ![c] = "done"]
    /\ completed' = Append(completed, c)
    /\ \E success \in BOOLEAN :
         /\ notes' = add_base_note(notes, c,
                        IF success THEN OtherGood(c) ELSE OtherProblem(c), <<>>)
         /\ inm_support' = IF success /\ c = "ETag Validation"
                            THEN "True" ELSE inm_support
         /\ gzip_support' = IF success /\ c = "Content Negotiation"
                             THEN "True" ELSE gzip_support
         /\ partial_support' = IF success /\ c = "Partial Content"
                                THEN "True" ELSE partial_support
    /\ UNCHANGED <<base, ims_support, request_headers, response,
                   fetch_started, pc, issued, done_calls, rendered_links>>

\* finish_output: the reporting layer formats every category of the
\* resource's notes; it reads the resource and writes only its own output.
Report ==
    /\ rendered_links' =
         UNION { Range(format_category_links(note_categories[i], notes,
                                             SubreqFetchStarted)) :
                 i \in DOMAIN note_categories }
    /\ UNCHANGED <<base, ims_support, notes, request_headers, response,
                   fetch_started, pc, issued, done_calls, inm_support,
                   gzip_support, partial_support, other_pc, completed>>

NextAll ==
    \/ Check \/ FetchDone \/ Abandon
    \/ \E c \in OtherChecks : OtherCheck(c)
    \/ \E c \in OtherChecks : OtherFetchDone(c)
    \/ Report

SpecAll == InitAll /\ [][NextAll]_vars

(***************************************************************************)
(* Vocabulary of the properties.                                           *)
(***************************************************************************)
HasLastModified == has_key(base.parsed_headers, "last-modified")

\* This step is the completion callback running done().
DoneStep == pc = "in_flight" /\ done_calls' = done_calls + 1

\* This step appends exactly k notes and touches no earlier note.
AppendsExactly(k) ==
    /\ Len(notes') = Len(notes) + k
    /\ SubSeq(notes', 1, Len(notes)) = notes

\* The notes this step appended.
Added == SubSeq(notes', Len(notes) + 1, Len(notes'))

\* The notes of the sequence ns that have level lvl.
AtLevel(ns, lvl) == {i \in DOMAIN ns : ns[i].level = lvl}

\* C1: a base response without a parsed Last-Modified header makes
\* preflight() return false: the check is skipped, the probe is never
\* dispatched, done() never runs, base.ims_support is False afterwards and
\* no note is appended.
C1_NoLastModifiedSkips ==
    /\ [](~HasLastModified /\ pc # "start" =>
            /\ pc = "skipped"
            /\ ~fetch_started /\ issued = 0 /\ done_calls = 0
            /\ ims_support = "False")
    /\ [][~HasLastModified => notes' = notes]_vars

C1_Witness ==
    /\ ~HasLastModified /\ pc = "skipped" /\ ims_support = "False"
    /\ Len(notes) = MaxPriorNotes

\* C2: a complete 304 response makes done() set base.ims_support to True and
\* append one Good note (IMS_304) followed, for each of the five headers the
\* response lacks, by exactly one note naming that header, all distinct.
C2_NotModified ==
    [][DoneStep /\ response'.complete /\ response'.status_code = "304" =>
        /\ pc' = "done"
        /\ ims_support' = "True"
        /\ SubSeq(notes', 1, Len(notes)) = notes
        /\ Len(Added) =
             1 + Cardinality(Hdrs304Set \ DOMAIN response'.parsed_headers)
        /\ Added[1].note = "IMS_304"
        /\ AtLevel(Added, "GOOD") = {1}
        /\ \A h \in Hdrs304Set :
             Cardinality({i \in DOMAIN Added :
                            <<"missing_hdrs", h>> \in Range(Added[i].vars)})
               = IF has_key(response'.parsed_headers, h) THEN 0 ELSE 1
        /\ \A i, j \in DOMAIN Added : i # j => Added[i] # Added[j]
    ]_vars

C2_Witness ==
    /\ pc = "done" /\ response.complete /\ response.status_code = "304"
    /\ DOMAIN response.parsed_headers = {"etag", "vary"}
    /\ ims_support = "True"
    /\ Cardinality(AtLevel(notes, "GOOD")) = 1
    /\ Cardinality({i \in DOMAIN notes : notes[i].note = "MISSING_HDRS_304"}) = 3

\* The case of C3: a complete response with the base's status, not 304, and
\* a content hash different from the base's.
SameStatusOtherHash(resp) ==
    /\ resp.complete
    /\ resp.status_code # "304"
    /\ resp.status_code = base.status_code
    /\ resp.payload_md5 # base.payload_md5

\* The case of C4: as above with the same content hash.
SameStatusSameHash(resp) ==
    /\ resp.complete
    /\ resp.status_code # "304"
    /\ resp.status_code = base.status_code
    /\ resp.payload_md5 = base.payload_md5

\* C3 as stated: same status, different hash => done() sets
\* base.ims_support to False and appends exactly one Warn note.
C3_Original ==
    [][DoneStep /\ SameStatusOtherHash(response') =>
        /\ ims_support' = "False"
        /\ AppendsExactly(1)
        /\ Added[1].level = "WARN"
    ]_vars

\* C3 amended: same status, different hash => done() leaves
\* base.ims_support unchanged and appends exactly one Info note
\* (IMS_UNKNOWN).
C3_SameStatusOtherHash ==
    [][DoneStep /\ SameStatusOtherHash(response') =>
        /\ pc' = "done"
        /\ ims_support' = ims_support
        /\ AppendsExactly(1)
        /\ Added[1].level = "INFO"
        /\ Added[1].note = "IMS_UNKNOWN"
    ]_vars

C3_Witness ==
    /\ pc = "done" /\ SameStatusOtherHash(response)
    /\ ims_support = None
    /\ notes # <<>> /\ notes[Len(notes)].note = "IMS_UNKNOWN"

\* C4 as stated: same status, same hash, not 304 => done() appends exactly
\* one Info note naming the status and leaves base.ims_support unchanged.
C4_Original ==
    [][DoneStep /\ SameStatusSameHash(response') =>
        /\ ims_support' = ims_support
        /\ AppendsExactly(1)
        /\ Added[1].level = "INFO"
        /\ \E kv \in Range(Added[1].vars) : kv[2] = response'.status_code
    ]_vars

\* C4 amended: same status, same hash, not 304 => done() sets
\* base.ims_support to False and appends exactly one Warn note (IMS_FULL),
\* which carries no status.
C4_SameStatusSameHash ==
    [][DoneStep /\ SameStatusSameHash(response') =>
        /\ pc' = "done"
        /\ ims_support' = "False"
        /\ AppendsExactly(1)
        /\ Added[1].level = "WARN"
        /\ Added[1].note = "IMS_FULL"
        /\ Added[1].vars = <<>>
    ]_vars

C4_Witness ==
    /\ pc = "done" /\ SameStatusSameHash(response)
    /\ ims_support = "False"
    /\ notes # <<>> /\ notes[Len(notes)].note = "IMS_FULL"

\* C5: a complete response whose status is neither 304 nor the base's makes
\* done() append exactly one Info note (IMS_STATUS) whose parameters carry
\* the response's status code, and leave base.ims_support unchanged.
C5_OtherStatus ==
    [][DoneStep /\ response'.complete /\ response'.status_code # "304"
         /\ response'.status_code # base.status_code =>
        /\ pc' = "done"
        /\ ims_support' = ims_support
        /\ AppendsExactly(1)
        /\ Added[1].level = "INFO"
        /\ Added[1].note = "IMS_STATUS"
        /\ <<"ims_status", response'.status_code>> \in Range(Added[1].vars)
    ]_vars

C5_Witness ==
    /\ pc = "done" /\ response.complete /\ response.status_code = "404"
    /\ ims_support = None
    /\ notes # <<>> /\ notes[Len(notes)].note = "IMS_STATUS"
    /\ <<"ims_status", "404">> \in Range(notes[Len(notes)].vars)

\* C6: an incomplete response makes done() append exactly one Bad note
\* (LM_SUBREQ_PROBLEM) carrying the failure description and nothing else,
\* whatever its status code and hash, and leave base.ims_support unchanged.
C6_Incomplete ==
    [][DoneStep /\ ~response'.complete =>
        /\ ims_support' = ims_support
        /\ AppendsExactly(1)
        /\ Added[1].level = "BAD"
        /\ Added[1].note = "LM_SUBREQ_PROBLEM"
        /\ \E kv \in Range(Added[1].vars) : kv[1] = "problem"
    ]_vars

\* C7: for every incomplete response, an absent http_error included, done()
\* raises nothing: it has ended normally with exactly one Bad note appended
\* and the completion recorded.
C7_IncompleteNeverRaises ==
    done_calls > 0 /\ ~response.complete =>
        /\ pc = "done"
        /\ Cardinality(AtLevel(notes, "BAD")) = 1

\* A timestamp datetime can represent: 0001-01-01 .. 9999-12-31.
ValidTimestamp(ts) ==
    ts.magnitude = "time_t" /\ ts.days >= -719162 /\ ts.days <= 2932896

DaysInMonth(y, m) ==
    IF m = 2 THEN (IF is_leap(y) THEN 29 ELSE 28)
    ELSE IF m \in {4, 6, 9, 11} THEN 30 ELSE 31

\* n in exactly two, and in exactly four, decimal digits.
TwoDigits(n) == Digits[(n \div 10) + 1] \o Digits[(n % 10) + 1]
FourDigits(n) == TwoDigits(n \div 100) \o TwoDigits(n % 100)

\* C8: for every valid Last-Modified timestamp the subrequest is built and
\* its last header is If-Modified-Since with a value of the 29-character
\* form 'Www, DD Mon YYYY HH:MM:SS GMT': the calendar date is the UTC date
\* of the timestamp, the weekday is that of the day (1970-01-01 was a
\* Thursday), and every number has its fixed width; 2023-03-05T07:08:09
\* gives 'Sun, 05 Mar 2023 07:08:09 GMT'.
C8_DateFormat ==
    HasLastModified /\ ValidTimestamp(base.parsed_headers["last-modified"])
      /\ pc # "start" =>
        LET ts == base.parsed_headers["last-modified"]
            dt == utcfromtimestamp(ts)
            last == request_headers[Len(request_headers)]
        IN /\ fetch_started
           /\ Len(request_headers) = Len(base.request_headers) + 1
           /\ last[1] = "If-Modified-Since"
           /\ dt.ok
           /\ dt.year \in 1..9999 /\ dt.month \in 1..12
           /\ dt.day \in 1..DaysInMonth(dt.year, dt.month)
           /\ toordinal(dt) - 719163 = ts.days
           /\ dt.hour \in 0..23 /\ dt.minute \in 0..59 /\ dt.second \in 0..59
           /\ dt.hour * 3600 + dt.minute * 60 + dt.second = ts.sod
           /\ Len(last[2]) = 29
           /\ last[2] = _weekdays[((ts.days + 3) % 7) + 1] \o ", "
                          \o TwoDigits(dt.day) \o " " \o _months[dt.month]
                          \o " " \o FourDigits(dt.year) \o " "
                          \o TwoDigits(dt.hour) \o ":" \o TwoDigits(dt.minute)
                          \o ":" \o TwoDigits(dt.second) \o " GMT"
           /\ (ts = Timestamp(19421, 25689) =>
                 last[2] = "Sun, 05 Mar 2023 07:08:09 GMT")

C8_Witness ==
    /\ pc = "in_flight" /\ HasLastModified
    /\ base.parsed_headers["last-modified"] = Timestamp(19421, 25689)
    /\ request_headers[Len(request_headers)]
         = <<"If-Modified-Since", "Sun, 05 Mar 2023 07:08:09 GMT">>

\* C9: for every Last-Modified value that cannot be interpreted as a
\* timestamp, whatever the failure, modify_req_hdrs() raises nothing and
\* the subrequest carries exactly the base request's headers.
C9_UninterpretableFallsBack ==
    HasLastModified /\ ~ValidTimestamp(base.parsed_headers["last-modified"])
      /\ pc # "start" =>
        /\ fetch_started
        /\ request_headers = base.request_headers

\* C10: done() runs at most once and only for a dispatched probe, the
\* request is issued exactly once per dispatched probe and never again, a
\* completed probe has had exactly one done(), and an abandoned one none.
C10_DoneOncePerDispatch ==
    /\ done_calls <= 1 /\ issued <= 1
    /\ fetch_started <=> issued = 1
    /\ done_calls = 1 => fetch_started
    /\ pc = "in_flight" => fetch_started /\ done_calls = 0
    /\ pc = "done" => done_calls = 1
    /\ pc = "abandoned" => done_calls = 0
    /\ pc = "skipped" => done_calls = 0 /\ issued = 0

C10_Witness ==
    /\ pc = "done" /\ done_calls = 1 /\ issued = 1
    /\ ~response.complete /\ response.http_error = "ReadTimeoutError"

\* C11: fetch_started is true only after preflight() passed (the base
\* response has Last-Modified) and the request was dispatched; done() has
\* run only for a started fetch; and the report links a '<check> response'
\* only for checks whose fetch had started.
C11_StartedOnlyIfApplicable ==
    /\ fetch_started =>
         /\ HasLastModified /\ issued = 1
         /\ pc \in {"in_flight", "done", "raised", "abandoned"}
    /\ ~fetch_started => done_calls = 0 /\ pc \in {"start", "skipped", "raised"}
    /\ LmCheckName \in rendered_links => fetch_started /\ HasLastModified
    /\ \A c \in OtherChecks :
         c \in rendered_links => other_pc[c] \in {"in_flight", "done"}

\* A report made after the Last-Modified check was skipped and the ETag
\* check ran: the Validation banner links the latter only.
C11_Witness ==
    /\ pc = "skipped" /\ ~fetch_started
    /\ other_pc["ETag Validation"] = "done"
    /\ rendered_links = {"ETag Validation"}

\* C12: whatever the interleaving, a step of the Last-Modified check
\* (preflight() or done()) leaves inm_support, gzip_support, partial_support
\* and the other checks' positions as they were, and a step of another
\* check leaves ims_support and the Last-Modified probe's request, response
\* and position as they were.
C12_NoCrossWrites ==
    [][/\ (pc' # pc =>
             /\ inm_support' = inm_support
             /\ gzip_support' = gzip_support
             /\ partial_support' = partial_support
             /\ other_pc' = other_pc)
       /\ (other_pc' # other_pc =>
             /\ ims_support' = ims_support
             /\ response' = response
             /\ request_headers' = request_headers
             /\ fetch_started' = fetch_started
             /\ pc' = pc
             /\ \A c \in OtherChecks :
                  other_pc'[c] = other_pc[c] =>
                    /\ (c = "ETag Validation" => inm_support' = inm_support)
                    /\ (c = "Content Negotiation" => gzip_support' = gzip_support)
                    /\ (c = "Partial Content" => partial_support' = partial_support))
    ]_vars

\* Both checks have completed, the Last-Modified one with a 304 and the
\* ETag one with a failure: each flag holds its own check's verdict.
C12_Witness ==
    /\ pc = "done" /\ response.status_code = "304" /\ ims_support = "True"
    /\ other_pc["ETag Validation"] = "done" /\ inm_support = None
    /\ completed = <<"ETag Validation", LmCheckName>>

\* The notes of ns appended by the Last-Modified check.
LmNotes(ns) ==
    {i \in DOMAIN ns :
        \/ ns[i].note \in {"LM_SUBREQ_PROBLEM", "IMS_304", "IMS_FULL",
                             "IMS_UNKNOWN", "IMS_STATUS"}
        \/ ns[i].note = "MISSING_HDRS_304"
             /\ <<"subreq_type", "If-Modified-Since">> \in Range(ns[i].vars)}

\* The notes of ns appended by the other check c.
OtherNotes(ns, c) ==
    {i \in DOMAIN ns : ns[i].subject = c
                         /\ ns[i].note \in {"SUBREQ_GOOD", "SUBREQ_PROBLEM"}}

\* Every check that applies has completed: its completion callback has run.
AllCompleted ==
    /\ pc = "skipped" \/ done_calls = 1
    /\ \A c \in OtherChecks : other_pc[c] \in {"idle", "done"}

\* C13: once every applicable check has completed, whatever the order of
\* the completions, the notes are exactly those the classification rules
\* give: from the Last-Modified check none if it was skipped, one Bad note
\* for an incomplete response, the Good note and one note per missing
\* header for a 304, one note otherwise; one note from each other check
\* that ran; and nothing else but the notes that were there before.
C13_ExactlyTheRulesNotes ==
    AllCompleted =>
        /\ Cardinality(LmNotes(notes)) =
             IF pc = "skipped" THEN 0
             ELSE IF ~response.complete THEN 1
             ELSE IF response.status_code = "304"
             THEN 1 + Cardinality(Hdrs304Set \ DOMAIN response.parsed_headers)
             ELSE 1
        /\ ~response.complete /\ done_calls = 1 =>
             \E i \in LmNotes(notes) : notes[i].level = "BAD"
        /\ \A c \in OtherChecks :
             Cardinality(OtherNotes(notes, c)) =
               IF other_pc[c] = "done" THEN 1 ELSE 0
        /\ \A i \in DOMAIN notes :
             \/ notes[i].note = "PRIOR_NOTE"
             \/ i \in LmNotes(notes)
             \/ \E c \in OtherChecks : i \in OtherNotes(notes, c)
        /\ \A i, j \in DOMAIN notes :
             i # j /\ notes[i].note # "PRIOR_NOTE" => notes[i] # notes[j]

\* C14: abandon() itself has no side effect, and once the probe is
\* abandoned it stays so: done() is never run for it, it appends no note
\* and base.ims_support and its response are never written again, whatever
\* else happens to the resource.
C14_AbandonedNeverClassified ==
    /\ [](pc = "abandoned" => done_calls = 0 /\ LmNotes(notes) = {})
    /\ [][pc' = "abandoned" =>
            /\ pc \in {"in_flight", "abandoned"}
            /\ done_calls' = done_calls
            /\ ims_support' = ims_support
            /\ response' = response
            /\ Cardinality(LmNotes(notes')) = Cardinality(LmNotes(notes))
            /\ SubSeq(notes', 1, Len(notes)) = notes]_vars
    /\ [][pc = "abandoned" => pc' = "abandoned"]_vars

\* The probe was abandoned in flight and another check completed later.
C14_Witness ==
    /\ pc = "abandoned" /\ fetch_started /\ done_calls = 0
    /\ ims_support = None /\ response = NoResponse
    /\ completed = <<"Partial Content">>

\* C15: a dispatched probe does not stay in flight for ever: unless it is
\* abandoned, its completion is delivered and done() runs; and a probe
\* that timed out is delivered as an incomplete response with its error
\* descriptor, for which done() appends exactly one Bad note
\* (LM_SUBREQ_PROBLEM) carrying the description.
C15_EveryProbeResolves ==
    /\ (pc = "in_flight") ~> (done_calls = 1 \/ pc = "abandoned")
    /\ [][DoneStep /\ ~response'.complete
             /\ response'.http_error = "ReadTimeoutError" =>
            /\ pc' = "done"
            /\ AppendsExactly(1)
            /\ Added[1].level = "BAD"
            /\ Added[1].note = "LM_SUBREQ_PROBLEM"
            /\ Added[1].vars = <<<<"problem", "Read Timeout">>>>
            /\ ims_support' = ims_support]_vars

C15_Witness ==
    /\ pc = "done" /\ done_calls = 1
    /\ ~response.complete /\ response.http_error = "ReadTimeoutError"
    /\ response.status_code = None
    /\ Len(notes) = MaxPriorNotes + 1
    /\ notes[Len(notes)].level = "BAD"

\* The check a note of the sequence ns comes from.
NoteOwner(ns, i) == IF i \in LmNotes(ns) THEN LmCheckName ELSE ns[i].subject

\* The place of check c in the order of completion.
CompletionRank(c) == CHOOSE k \in DOMAIN completed : completed[k] = c

\* C16: every step leaves the notes it found as a prefix of the notes it
\* leaves, a report leaves them as they are, and the notes of the checks
\* stand after the earlier notes in the order in which the checks'
\* callbacks ran: a note of a check that completed later is never before a
\* note of one that completed earlier.
C16_NotesAppendOnly ==
    /\ [][/\ Len(notes') >= Len(notes)
           /\ SubSeq(notes', 1, Len(notes)) = notes
           /\ (rendered_links' # rendered_links => notes' = notes)]_vars
    /\ [](\A i, j \in DOMAIN notes :
            i < j /\ notes[i].note # "PRIOR_NOTE" =>
              /\ notes[j].note # "PRIOR_NOTE"
              /\ NoteOwner(notes, i) \in Range(completed)
              /\ NoteOwner(notes, j) \in Range(completed)
              /\ CompletionRank(NoteOwner(notes, i))
                   <= CompletionRank(NoteOwner(notes, j)))

\* The ETag check completed before the Last-Modified one, which comes
\* later in the Validation category's list: its note comes first, and a
\* report has been made.
C16_Witness ==
    /\ completed = <<"ETag Validation", LmCheckName>>
    /\ pc = "done" /\ response.status_code = "304"
    /\ Len(notes) >= MaxPriorNotes + 2
    /\ notes[MaxPriorNotes + 1].subject = "ETag Validation"
    /\ notes[MaxPriorNotes + 2].note = "IMS_304"
    /\ rendered_links = {"ETag Validation", LmCheckName}

\* This step is the start of the check, running preflight().
CheckStep == pc = "start" /\ pc' # "start"

\* C17 as stated: base.ims_support becomes False only when the validator
\* header is absent or a same-status response has a different content hash,
\* and a same-status response with the same hash leaves the flag as it was.
C17_Original ==
    [][/\ (ims_support' = "False" /\ ims_support # "False" =>
             \/ CheckStep /\ ~HasLastModified
             \/ DoneStep /\ SameStatusOtherHash(response'))
       /\ (DoneStep /\ SameStatusSameHash(response') =>
             ims_support' = ims_support)
    ]_vars

\* C17 amended: of the six paths of the check, one sets base.ims_support
\* to True (status 304), two set it to False (preflight() without
\* Last-Modified; same status and the same content hash), and three leave
\* it as it was (incomplete response; same status and a different hash;
\* any other status), as does a preflight() that passes.
C17_FlagPerBranch ==
    [][/\ (CheckStep /\ ~HasLastModified => ims_support' = "False")
       /\ (CheckStep /\ HasLastModified => ims_support' = ims_support)
       /\ (DoneStep /\ ~response'.complete => ims_support' = ims_support)
       /\ (DoneStep /\ response'.complete /\ response'.status_code = "304" =>
             ims_support' = "True")
       /\ (DoneStep /\ SameStatusSameHash(response') => ims_support' = "False")
       /\ (DoneStep /\ SameStatusOtherHash(response') =>
             ims_support' = ims_support)
       /\ (DoneStep /\ response'.complete /\ response'.status_code # "304"
             /\ response'.status_code # base.status_code =>
             ims_support' = ims_support)
       /\ (ims_support' # ims_support => CheckStep \/ DoneStep)
    ]_vars

C17_Witness ==
    /\ pc = "done" /\ ~response.complete
    /\ response.http_error = "ConnectError"
    /\ response.status_code = base.status_code
    /\ ims_support = None

\* The value of base's Last-Modified header is there and is a timestamp
\* that datetime can represent.
Interpretable ==
    HasLastModified /\ ValidTimestamp(base.parsed_headers["last-modified"])

\* hs is base_hdrs followed by exactly one If-Modified-Since pair.
ExtendedByOneIms(hs, base_hdrs) ==
    /\ Len(hs) = Len(base_hdrs) + 1
    /\ SubSeq(hs, 1, Len(base_hdrs)) = base_hdrs
    /\ hs[Len(hs)][1] = "If-Modified-Since"

\* C18: modify_req_hdrs() never changes the base request's header list;
\* what it returns is the base's headers, in order, followed by exactly
\* one (If-Modified-Since, v) pair when Last-Modified is present and
\* interpretable, and by nothing otherwise; the probe is sent with what
\* it returned.
C18_HeadersCopiedAndExtended ==
    /\ [][base' = base]_vars
    /\ [](LET r == modify_req_hdrs(base)
          IN /\ r.base_request_headers = base.request_headers
             /\ (Interpretable =>
                   /\ r.raised = None
                   /\ ExtendedByOneIms(r.headers, base.request_headers))
             /\ (~Interpretable /\ r.raised = None =>
                   r.headers = base.request_headers))
    /\ [](fetch_started =>
            IF Interpretable
            THEN ExtendedByOneIms(request_headers, base.request_headers)
            ELSE request_headers = base.request_headers)

\* The base request already carried an If-Modified-Since header: it is
\* kept where it was, and the new pair is the last one.
C18_Witness ==
    /\ fetch_started
    /\ base.request_headers =
         <<<<"If-Modified-Since", "x">>, <<"User-Agent", "RED">>>>
    /\ Len(request_headers) = 3
    /\ request_headers[1] = <<"If-Modified-Since", "x">>
    /\ request_headers[3] = <<"If-Modified-Since",
                              "Sun, 05 Mar 2023 07:08:09 GMT">>

\* The names of the notes this step added.
AddedNames == {Added[i].note : i \in DOMAIN Added}

\* The note each branch of done() opens with.
BranchNotes ==
    {"LM_SUBREQ_PROBLEM", "IMS_304", "IMS_FULL", "IMS_UNKNOWN", "IMS_STATUS"}

\* C19: done() tests, in this order, for an incomplete response, for
\* status 304, for the base's status, and takes the last branch otherwise;
\* one branch only is taken.  An incomplete response gets no status
\* comparison whatever status it carries, and a 304 answer to a base that
\* was itself 304 is a success, whatever the content hashes.
C19_BranchOrder ==
    [][DoneStep =>
        /\ Cardinality(AddedNames \cap BranchNotes) <= 1
        /\ (pc' = "done" => Cardinality(AddedNames \cap BranchNotes) = 1)
        /\ (~response'.complete =>
              /\ AddedNames \subseteq {"LM_SUBREQ_PROBLEM"}
              /\ ims_support' = ims_support)
        /\ (response'.complete /\ response'.status_code = "304" =>
              /\ "IMS_304" \in AddedNames
              /\ AddedNames \subseteq {"IMS_304", "MISSING_HDRS_304"}
              /\ ims_support' = "True")
        /\ (response'.complete /\ response'.status_code # "304"
              /\ response'.status_code = base.status_code =>
              \/ AddedNames = {"IMS_FULL"}
              \/ AddedNames = {"IMS_UNKNOWN"})
        /\ (response'.complete /\ response'.status_code # "304"
              /\ response'.status_code # base.status_code =>
              AddedNames = {"IMS_STATUS"})
    ]_vars

\* The base response was a 304 and so is the probe's, with the same
\* content hash: the check ends as a success.
C19_Witness ==
    /\ pc = "done"
    /\ base.status_code = "304"
    /\ response.complete /\ response.status_code = "304"
    /\ response.payload_md5 = base.payload_md5
    /\ ims_support = "True"
    /\ \E i \in DOMAIN notes : notes[i].note = "IMS_304"
    /\ \A i \in DOMAIN notes : notes[i].note \notin {"IMS_FULL", "IMS_UNKNOWN"}

====
